---- MODULE Spec2Model ----
(***************************************************************************)
(* A model of senzing-mapping-assistant.py: the command-line dispatch of   *)
(* __main__, get_configuration, the bounded JSON Lines generator, and the  *)
(* three operations do_prepare, do_train and do_test_phrase acting on an   *)
(* output directory tree and a model artifact file.                        *)
(*                                                                         *)
(* Python is taken to be 3.7 or later (dict keeps insertion order).        *)
(* Library behaviour (argparse, os.makedirs, json.loads, sklearn's         *)
(* load_files, CountVectorizer, MultinomialNB) is modelled as documented.  *)
(***************************************************************************)
EXTENDS Integers, Sequences, FiniteSets, TLC

VARIABLES
    argv,            \* sys.argv[1:]: [cmd, opts]; cmd = None when len(sys.argv) = 1
    environ,         \* os.environ restricted to the SENZING_* names read
    ini,             \* TRUE when get_ini_filename finds a slice-algorithm.ini
    ini_values,      \* what that file would supply, per parameter
    runs,            \* number of process runs started so far
    pc,              \* position of the current process run
    subcommand,      \* the module-level variable subcommand
    args,            \* the argparse.Namespace handed to do_*
    config,          \* the dictionary returned by get_configuration
    executed,        \* do_* functions entered in this run, in order
    exit_status,     \* exit status of the run (NoExit while running)
    error,           \* the uncaught exception that ended the run, or None
    jsonl,           \* content of the JSON Lines file being read
    max_lines,       \* max_lines bound in the generator's closure
    counter,         \* the generator's local counter
    yielded,         \* the values this invocation of the generator yielded
    first_yielded,   \* the values the previous complete invocation yielded
    invocation,      \* how many times result_function has been invoked
    key_values,      \* do_prepare's in-memory structure, in insertion order
    widx,            \* how many keys of key_values the write loop has handled
    fs,              \* the output/input directory tree
    fs_at_start,     \* fs when the run began
    model_file,      \* content of the model artifact file, or Absent
    model_at_start,  \* model_file when the run began
    last_trained,    \* what the most recent do_train wrote (Absent before any)
    loaded,          \* what the most recent do_test_phrase unpickled
    logged           \* message 103 of the most recent run: <<phrase, category>>

vars == <<argv, environ, ini, ini_values, runs, pc, subcommand, args, config,
          executed, exit_status, error, jsonl, max_lines, counter, yielded,
          first_yielded, invocation, key_values, widx, fs, fs_at_start,
          model_file, model_at_start, last_trained, loaded, logged>>

(***************************************************************************)
(* Bounds of the model.                                                    *)
(***************************************************************************)
MaxLen == 2
MaxCap == 3
MaxRuns == 3

(***************************************************************************)
(* Python values.                                                          *)
(***************************************************************************)
None == "<None>"
Absent == [exists |-> FALSE, target_names |-> <<>>, docs |-> {}]
NoExit == 0 - 1

\* Python truth of a string-or-None value: `if value:`.
Truthy(v) == v # None /\ v # ""

(***************************************************************************)
(* configuration_locator                                                   *)
(***************************************************************************)
Params == {"input_directory", "jsonlines_file", "model_file",
           "output_directory", "test_phrase"}

configuration_locator ==
    [p \in Params |->
        CASE p = "input_directory" ->
                [default |-> "senzing-mapping-assistant-prepare",
                 env |-> "SENZING_INPUT_DIRECTORY"]
          [] p = "jsonlines_file" ->
                [default |-> None, env |-> "SENZING_JSONLINES_FILE"]
          [] p = "model_file" ->
                [default |-> "model.pickle", env |-> "SENZING_MODEL_FILE"]
          [] p = "output_directory" ->
                [default |-> "senzing-mapping-assistant-prepare",
                 env |-> "SENZING_OUTPUT_DIRECTORY"]
          [] p = "test_phrase" ->
                [default |-> None, env |-> "SENZING_TEST_PHRASE"]]

EnvNames == {"SENZING_SUBCOMMAND"} \cup {configuration_locator[p].env : p \in Params}

(***************************************************************************)
(* get_parser: the three subparsers and the options each one declares.     *)
(***************************************************************************)
Subcommands == {"prepare", "train", "test-phrase"}

SubparserDests(sub) ==
    CASE sub = "prepare" -> {"jsonlines_file", "output_directory"}
      [] sub = "train" -> {"input_directory", "model_file"}
      [] sub = "test-phrase" -> {"test_phrase", "model_file"}

\* parser.parse_args() for a command line naming a subcommand: the
\* Namespace's __dict__, an option not given being None.
ParseArgs(av) ==
    [k \in {"subcommand"} \cup SubparserDests(av.cmd) |->
        IF k = "subcommand" THEN av.cmd ELSE av.opts[k]]

\* argparse.Namespace(subcommand=subcommand)
EnvNamespace(sub) == [k \in {"subcommand"} |-> sub]

(***************************************************************************)
(* get_configuration                                                       *)
(***************************************************************************)
\* One "copy args into the dictionary" loop: truthy values only.
CopyArgs(result, a) ==
    [k \in DOMAIN result \cup {j \in DOMAIN a : Truthy(a[j])} |->
        IF k \in DOMAIN a /\ Truthy(a[k]) THEN a[k] ELSE result[k]]

\* The environment loop: truthy values only.
CopyEnv(result, env) ==
    [k \in DOMAIN result |->
        IF k \in Params /\ Truthy(env[configuration_locator[k].env])
        THEN env[configuration_locator[k].env] ELSE result[k]]

\* get_configuration(args). The INI branch names configparser, which the
\* file never imports: with a slice-algorithm.ini found the call raises
\* NameError. No entry of configuration_locator has an 'ini' key.
GetConfiguration(a, env, iniFound) ==
    IF iniFound THEN [raised |-> "NameError", result |-> <<>>]
    ELSE [raised |-> None,
          result |-> CopyArgs(CopyEnv(CopyArgs(
                        [p \in Params |-> configuration_locator[p].default], a),
                        env), a)]

(***************************************************************************)
(* JSON Lines input.  A line is a flat JSON object, given as its (key,     *)
(* JSON text of the value) pairs in document order, or is unparsable.      *)
(***************************************************************************)
Rec(r) == [ok |-> TRUE, rec |-> r]
BadLine == [ok |-> FALSE, rec |-> <<>>]

R1 == << <<"color", "\"red\"">>, <<"size", "\"M\"">> >>
R2 == << <<"color", "\"blue\"">>, <<"size", "\"L\"">> >>
R3 == << <<"Color", "\"red\"">> >>
R4 == << <<"size", "true">>, <<"Color", "\"blue\"">> >>
R5 == << >>

Lines == {Rec(R1), Rec(R2), Rec(R3), Rec(R4), Rec(R5), BadLine}

RECURSIVE SeqsUpTo(_, _)
SeqsUpTo(S, n) ==
    IF n = 0 THEN {<<>>}
    ELSE LET shorter == SeqsUpTo(S, n - 1)
         IN shorter \cup {Append(q, x) : q \in {t \in shorter : Len(t) = n - 1}, x \in S}

\* "{0}".format(json.loads(text)): a JSON string loses its quotes, JSON
\* true becomes Python's True.
Format(text) ==
    CASE text = "\"red\"" -> "red"
      [] text = "\"blue\"" -> "blue"
      [] text = "\"M\"" -> "M"
      [] text = "\"L\"" -> "L"
      [] text = "true" -> "True"

\* key.lower()
Lower(key) == IF key = "Color" THEN "color" ELSE key

(***************************************************************************)
(* get_generator_from_jsonlines: one iteration of result_function's for    *)
(* loop, from the generator's counter.  "stop": the file is exhausted;     *)
(* "return": the else branch; "raise": json.loads fails.                   *)
(***************************************************************************)
GenStepNoCap(file, maxl, cnt) ==
    IF cnt >= Len(file) THEN [kind |-> "stop", counter |-> cnt, value |-> <<>>]
    ELSE IF maxl # 0
         THEN IF file[cnt + 1].ok
              THEN [kind |-> "yield", counter |-> cnt + 1, value |-> file[cnt + 1].rec]
              ELSE [kind |-> "raise", counter |-> cnt + 1, value |-> <<>>]
         ELSE [kind |-> "return", counter |-> cnt + 1, value |-> <<>>]

GenStep(file, maxl, cnt) ==
    IF cnt >= Len(file) THEN [kind |-> "stop", counter |-> cnt, value |-> <<>>]
    ELSE IF maxl # 0 /\ cnt + 1 <= maxl
         THEN IF file[cnt + 1].ok
              THEN [kind |-> "yield", counter |-> cnt + 1, value |-> file[cnt + 1].rec]
              ELSE [kind |-> "raise", counter |-> cnt + 1, value |-> <<>>]
         ELSE [kind |-> "return", counter |-> cnt + 1, value |-> <<>>]

(***************************************************************************)
(* The directory tree under the output directory:                          *)
(* [exists, dirs], dirs mapping a subdirectory to its files, a file to its *)
(* lines.                                                                  *)
(***************************************************************************)
NoRoot == [exists |-> FALSE, dirs |-> <<>>]
EmptyDir == [f \in {} |-> <<>>]

\* "{0}.txt".format(key)
KeyFile(key) ==
    CASE key = "color" -> "color.txt"
      [] key = "Color" -> "Color.txt"
      [] key = "size" -> "size.txt"

\* os.makedirs(directory) with exist_ok=True: an existing directory is kept.
MakeDirsExistOk(tree, dir) ==
    IF tree.exists /\ dir \in DOMAIN tree.dirs
    THEN [raised |-> None, fs |-> tree]
    ELSE [raised |-> None,
          fs |-> [exists |-> TRUE,
                  dirs |-> [d \in DOMAIN tree.dirs \cup {dir} |->
                              IF d = dir THEN EmptyDir ELSE tree.dirs[d]]]]

\* os.makedirs(directory): creates the directory and its missing parents,
\* FileExistsError when the directory exists.
MakeDirs(tree, dir) ==
    IF tree.exists /\ dir \in DOMAIN tree.dirs
    THEN [raised |-> "FileExistsError", fs |-> tree]
    ELSE [raised |-> None,
          fs |-> [exists |-> TRUE,
                  dirs |-> [d \in DOMAIN tree.dirs \cup {dir} |->
                              IF d = dir THEN EmptyDir ELSE tree.dirs[d]]]]

\* with open(filename, "w"): write one line per value.
WriteFile(tree, dir, name, values) ==
    [tree EXCEPT !.dirs =
        [d \in DOMAIN tree.dirs |->
            IF d = dir
            THEN [f \in DOMAIN tree.dirs[d] \cup {name} |->
                    IF f = name THEN [i \in 1..Len(values) |-> Format(values[i])]
                    ELSE tree.dirs[d][f]]
            ELSE tree.dirs[d]]]

(***************************************************************************)
(* do_prepare                                                              *)
(***************************************************************************)
PrepareMaxLines == 10000

KeyIndex(kv, key) ==
    IF \E i \in 1..Len(kv) : kv[i].key = key
    THEN CHOOSE i \in 1..Len(kv) : kv[i].key = key
    ELSE 0

\* The body of the inner loop: key_values[key].append(value), the list
\* created on the key's first occurrence.
AppendValueLowerKey(kv, key, value) ==
    IF KeyIndex(kv, Lower(key)) = 0
    THEN Append(kv, [key |-> Lower(key), values |-> <<value>>])
    ELSE [kv EXCEPT ![KeyIndex(kv, Lower(key))].values = Append(@, value)]

AppendValue(kv, key, value) ==
    IF KeyIndex(kv, key) = 0
    THEN Append(kv, [key |-> key, values |-> <<value>>])
    ELSE [kv EXCEPT ![KeyIndex(kv, key)].values = Append(@, value)]

\* for key, value in dictionary.items(): ...
RECURSIVE Accumulate(_, _)
Accumulate(kv, rec) ==
    IF rec = <<>> THEN kv
    ELSE Accumulate(AppendValue(kv, Head(rec)[1], Head(rec)[2]), Tail(rec))

\* One iteration of the write loop, for one (key, values) item.
WriteKey(tree, item) ==
    LET made == MakeDirs(tree, Lower(item.key))
    IN IF made.raised # None THEN made
       ELSE [raised |-> None,
             fs |-> WriteFile(made.fs, Lower(item.key), KeyFile(item.key), item.values)]

\* An uncaught exception: the interpreter prints the traceback, status 1.
Raise(exc) ==
    /\ pc' = "exited"
    /\ error' = exc
    /\ exit_status' = 1

\* The for loop over the generator ends at the first item.
LoopEndsAtFirst(step) == TRUE

\* The for loop over the generator ends when the generator does.
LoopEnds(step) == step.kind \in {"stop", "return"}

\* One iteration of `for dictionary in dictionaries()` with its inner loop.
PrepareRead ==
    /\ pc = "prepare_read"
    /\ LET step == GenStep(jsonl, max_lines, counter)
       IN /\ counter' = step.counter
          /\ IF step.kind = "raise"
             THEN /\ Raise("JSONDecodeError")
                  /\ UNCHANGED <<key_values, yielded>>
             ELSE /\ key_values' = IF step.kind = "yield"
                                   THEN Accumulate(key_values, step.value)
                                   ELSE key_values
                  /\ yielded' = IF step.kind = "yield"
                                THEN Append(yielded, step.value) ELSE yielded
                  /\ pc' = IF LoopEnds(step) THEN "prepare_write" ELSE "prepare_read"
                  /\ UNCHANGED <<error, exit_status>>
    /\ UNCHANGED <<argv, environ, ini, ini_values, runs, subcommand, args, config,
                   executed, jsonl, max_lines, first_yielded, invocation, widx,
                   fs, fs_at_start, model_file, model_at_start, last_trained,
                   loaded, logged>>

\* One iteration of `for key, values in key_values.items()`.
PrepareWrite ==
    /\ pc = "prepare_write"
    /\ widx < Len(key_values)
    /\ LET res == WriteKey(fs, key_values[widx + 1])
       IN /\ fs' = res.fs
          /\ IF res.raised # None
             THEN Raise(res.raised) /\ UNCHANGED widx
             ELSE widx' = widx + 1 /\ UNCHANGED <<pc, error, exit_status>>
    /\ UNCHANGED <<argv, environ, ini, ini_values, runs, subcommand, args, config,
                   executed, jsonl, max_lines, counter, yielded, first_yielded,
                   invocation, key_values, fs_at_start, model_file,
                   model_at_start, last_trained, loaded, logged>>

\* The epilog: the function returns and the process ends with status 0.
PrepareEpilog ==
    /\ pc = "prepare_write"
    /\ widx = Len(key_values)
    /\ pc' = "exited"
    /\ exit_status' = 0
    /\ UNCHANGED <<argv, environ, ini, ini_values, runs, subcommand, args, config,
                   executed, error, jsonl, max_lines, counter, yielded,
                   first_yielded, invocation, key_values, widx, fs, fs_at_start,
                   model_file, model_at_start, last_trained, loaded, logged>>

(***************************************************************************)
(* Inputs and starting states.                                             *)
(***************************************************************************)
NoOpts == [p \in Params |-> None]
NoArgv == [cmd |-> None, opts |-> NoOpts]
NoEnv == [n \in EnvNames |-> None]

\* Trees the output directory can be before a run of prepare: missing,
\* empty, or holding the output of an earlier run.
OldColor == [f \in {"color.txt"} |-> <<"old">>]
InitialTrees ==
    { NoRoot,
      [exists |-> TRUE, dirs |-> <<>>],
      [exists |-> TRUE, dirs |-> [d \in {"color"} |-> OldColor]],
      [exists |-> TRUE, dirs |-> [d \in {"size"} |-> EmptyDir]] }

JsonlFiles == SeqsUpTo(Lines, MaxLen)

\* Everything a specification does not use.
Quiet ==
    /\ argv = NoArgv
    /\ environ = NoEnv
    /\ ini = FALSE
    /\ ini_values = NoOpts
    /\ runs = 1
    /\ args = <<>>
    /\ config = <<>>
    /\ exit_status = NoExit
    /\ error = None
    /\ model_file = Absent
    /\ model_at_start = Absent
    /\ last_trained = Absent
    /\ loaded = Absent
    /\ logged = <<>>

(***************************************************************************)
(* The generator on its own: result_function invoked, run to its end, and  *)
(* invoked again.                                                          *)
(***************************************************************************)
GenInvocations == 2

InitGen ==
    /\ Quiet
    /\ pc = "gen_running"
    /\ subcommand = None
    /\ executed = <<>>
    /\ jsonl \in JsonlFiles
    /\ max_lines \in 0..MaxCap
    /\ counter = 0
    /\ yielded = <<>>
    /\ first_yielded = <<>>
    /\ invocation = 1
    /\ key_values = <<>>
    /\ widx = 0
    /\ fs = NoRoot
    /\ fs_at_start = NoRoot

\* next() on the generator until its next yield, its end or its exception.
GenIterate ==
    /\ pc = "gen_running"
    /\ LET step == GenStep(jsonl, max_lines, counter)
       IN /\ counter' = step.counter
          /\ yielded' = IF step.kind = "yield" THEN Append(yielded, step.value)
                        ELSE yielded
          /\ pc' = CASE step.kind = "yield" -> "gen_running"
                      [] step.kind = "raise" -> "gen_raised"
                      [] OTHER -> "gen_done"
    /\ UNCHANGED <<argv, environ, ini, ini_values, runs, subcommand, args, config,
                   executed, exit_status, error, jsonl, max_lines, first_yielded,
                   invocation, key_values, widx, fs, fs_at_start, model_file,
                   model_at_start, last_trained, loaded, logged>>

\* result_function() called again: the file is opened anew, counter = 0.
GenInvokeAgain ==
    /\ pc = "gen_done"
    /\ invocation < GenInvocations
    /\ invocation' = invocation + 1
    /\ first_yielded' = yielded
    /\ yielded' = <<>>
    /\ counter' = 0
    /\ pc' = "gen_running"
    /\ UNCHANGED <<argv, environ, ini, ini_values, runs, subcommand, args, config,
                   executed, exit_status, error, jsonl, max_lines, key_values,
                   widx, fs, fs_at_start, model_file, model_at_start,
                   last_trained, loaded, logged>>

NextGen == GenIterate \/ GenInvokeAgain

SpecGen == InitGen /\ [][NextGen]_vars

(***************************************************************************)
(* do_prepare on its own, from the creation of the generator on, over      *)
(* every input file and starting tree.                                     *)
(***************************************************************************)
InitPrepare ==
    /\ Quiet
    /\ pc = "prepare_read"
    /\ subcommand = "prepare"
    /\ executed = <<"do_prepare">>
    /\ jsonl \in JsonlFiles
    /\ max_lines = PrepareMaxLines
    /\ counter = 0
    /\ yielded = <<>>
    /\ first_yielded = <<>>
    /\ invocation = 1
    /\ key_values = <<>>
    /\ widx = 0
    /\ fs \in InitialTrees
    /\ fs_at_start = fs

NextPrepare == PrepareRead \/ PrepareWrite \/ PrepareEpilog

SpecPrepare == InitPrepare /\ [][NextPrepare]_vars

(***************************************************************************)
(* __main__: the command line and SENZING_SUBCOMMAND select the function.  *)
(***************************************************************************)
\* "do_{0}".format(subcommand.replace('-', '_'))
FunctionName(sub) ==
    CASE sub = "prepare" -> "do_prepare"
      [] sub = "train" -> "do_train"
      [] sub \in {"test-phrase", "test_phrase"} -> "do_test_phrase"
      [] OTHER -> "do_bogus"

\* The do_* names in globals().
Globals == {"do_prepare", "do_train", "do_test_phrase"}

\* The same with the environment variable consulted first.
ParseCommandLineEnvFirst(av, env) ==
    IF Truthy(env["SENZING_SUBCOMMAND"])
    THEN [exit |-> NoExit, subcommand |-> env["SENZING_SUBCOMMAND"],
          args |-> EnvNamespace(env["SENZING_SUBCOMMAND"])]
    ELSE IF av.cmd # None
    THEN IF av.cmd = "-h" THEN [exit |-> 0, subcommand |-> None, args |-> <<>>]
         ELSE IF av.cmd \notin Subcommands
         THEN [exit |-> 2, subcommand |-> None, args |-> <<>>]
         ELSE [exit |-> NoExit, subcommand |-> av.cmd, args |-> ParseArgs(av)]
    ELSE [exit |-> 1, subcommand |-> None, args |-> <<>>]

\* Lines 508-517.  With arguments, parser.parse_args(): -h prints the help
\* and exits 0, a word that is no subparser's name is an error and exits 2.
\* Without arguments SENZING_SUBCOMMAND is used, and without it too the
\* help is printed and exit_silently() exits 1.
ParseCommandLine(av, env) ==
    IF av.cmd # None
    THEN IF av.cmd = "-h" THEN [exit |-> 0, subcommand |-> None, args |-> <<>>]
         ELSE IF av.cmd \notin Subcommands
         THEN [exit |-> 2, subcommand |-> None, args |-> <<>>]
         ELSE [exit |-> NoExit, subcommand |-> av.cmd, args |-> ParseArgs(av)]
    ELSE IF Truthy(env["SENZING_SUBCOMMAND"])
    THEN [exit |-> NoExit, subcommand |-> env["SENZING_SUBCOMMAND"],
          args |-> EnvNamespace(env["SENZING_SUBCOMMAND"])]
    ELSE [exit |-> 1, subcommand |-> None, args |-> <<>>]

Main ==
    /\ pc = "main"
    /\ LET parsed == ParseCommandLine(argv, environ)
       IN /\ subcommand' = IF parsed.exit = NoExit THEN parsed.subcommand
                           ELSE environ["SENZING_SUBCOMMAND"]
          /\ args' = parsed.args
          /\ IF parsed.exit # NoExit
             THEN /\ pc' = "exited"
                  /\ exit_status' = parsed.exit
                  /\ UNCHANGED executed
             ELSE IF FunctionName(parsed.subcommand) \notin Globals
             THEN /\ pc' = "exited"
                  /\ exit_status' = 1
                  /\ UNCHANGED executed
             ELSE /\ pc' = FunctionName(parsed.subcommand)
                  /\ executed' = Append(executed, FunctionName(parsed.subcommand))
                  /\ UNCHANGED exit_status
    /\ UNCHANGED <<argv, environ, ini, ini_values, runs, config, error, jsonl,
                   max_lines, counter, yielded, first_yielded, invocation,
                   key_values, widx, fs, fs_at_start, model_file, model_at_start,
                   last_trained, loaded, logged>>

(***************************************************************************)
(* do_prepare's entry: configuration, prolog, the generator created and    *)
(* its file opened on the first next().                                    *)
(***************************************************************************)
\* The JSON Lines files on disk.
Disk ==
    [n \in {"a.jsonl", "b.jsonl"} |->
        IF n = "a.jsonl" THEN <<Rec(R1), Rec(R2)>> ELSE <<Rec(R3), Rec(R1)>>]

DoPrepare ==
    /\ pc = "do_prepare"
    /\ LET cfg == GetConfiguration(args, environ, ini)
       IN IF cfg.raised # None
          THEN /\ Raise(cfg.raised)
               /\ UNCHANGED <<config, jsonl>>
          ELSE /\ config' = cfg.result
               /\ IF cfg.result["jsonlines_file"] = None
                  THEN Raise("TypeError") /\ UNCHANGED jsonl
                  ELSE /\ jsonl' = Disk[cfg.result["jsonlines_file"]]
                       /\ pc' = "prepare_read"
                       /\ UNCHANGED <<error, exit_status>>
    /\ max_lines' = PrepareMaxLines
    /\ UNCHANGED <<argv, environ, ini, ini_values, runs, subcommand, args,
                   executed, counter, yielded, first_yielded, invocation,
                   key_values, widx, fs, fs_at_start, model_file, model_at_start,
                   last_trained, loaded, logged>>

(***************************************************************************)
(* do_train                                                                *)
(***************************************************************************)
\* The subdirectory names sklearn's load_files can meet, sorted.
SortedDirs == <<"color", "size">>

\* load_files(input_directory): target_names are the sorted subdirectory
\* names, every file of a subdirectory is one document labelled with the
\* subdirectory's index (from 1 here).  The shuffle permutes the documents
\* and is left out: nothing below reads their order.
LoadFiles(tree) ==
    LET names == SelectSeq(SortedDirs, LAMBDA d : d \in DOMAIN tree.dirs)
    IN [exists |-> TRUE,
        target_names |-> names,
        docs |-> {[label |-> i, file |-> f, text |-> tree.dirs[names[i]][f]] :
                    <<i, f>> \in {<<j, g>> \in (1..Len(names)) \X
                                        {"color.txt", "Color.txt", "size.txt"} :
                                    g \in DOMAIN tree.dirs[names[j]]}}]

DoTrain ==
    /\ pc = "do_train"
    /\ LET cfg == GetConfiguration(args, environ, ini)
       IN IF cfg.raised # None
          THEN /\ Raise(cfg.raised)
               /\ UNCHANGED <<config, model_file, last_trained>>
          ELSE /\ config' = cfg.result
               /\ IF ~fs.exists
                  THEN /\ Raise("FileNotFoundError")
                       /\ UNCHANGED <<model_file, last_trained>>
                  ELSE /\ model_file' = LoadFiles(fs)
                       /\ last_trained' = LoadFiles(fs)
                       /\ pc' = "exited"
                       /\ exit_status' = 0
                       /\ UNCHANGED error
    /\ UNCHANGED <<argv, environ, ini, ini_values, runs, subcommand, args,
                   executed, jsonl, max_lines, counter, yielded, first_yielded,
                   invocation, key_values, widx, fs, fs_at_start, model_at_start,
                   loaded, logged>>

(***************************************************************************)
(* do_test_phrase                                                          *)
(***************************************************************************)
\* CountVectorizer's analyzer: lower-cased words of two or more characters.
TokensOf(text) ==
    CASE text = "red" -> {"red"}
      [] text = "blue" -> {"blue"}
      [] text = "True" -> {"true"}
      [] text = "old" -> {"old"}
      [] text = "zebra" -> {"zebra"}
      [] OTHER -> {}

\* The vocabulary fit_transform learns from training_set.data.
Vocabulary(model) ==
    UNION {UNION {TokensOf(d.text[i]) : i \in 1..Len(d.text)} : d \in model.docs}

\* clf.classes_: the labels that have a document.
Classes(model) == {d.label : d \in model.docs}

DocCount(model, c) == Cardinality({d \in model.docs : d.label = c})

\* clf.predict on the phrase's tf-idf row.  A row of zeros scores every
\* class by its prior alone and argmax takes the first of the largest; for
\* any other row the numeric score is left open.
Predictions(model, phrase) ==
    IF TokensOf(phrase) \cap Vocabulary(model) = {}
    THEN {c \in Classes(model) :
            \A o \in Classes(model) :
                \/ DocCount(model, o) < DocCount(model, c)
                \/ DocCount(model, o) = DocCount(model, c) /\ c <= o}
    ELSE Classes(model)

\* open(model_file, "wb") in place of "rb": the file is cut to nothing.
PickleLoadTruncating(file) ==
    [raised |-> "EOFError", value |-> Absent,
     file |-> [exists |-> TRUE, target_names |-> <<>>, docs |-> {}]]

\* pickle.load(open(model_file, "rb"))
PickleLoad(file) ==
    IF file.exists THEN [raised |-> None, value |-> file, file |-> file]
    ELSE [raised |-> "FileNotFoundError", value |-> Absent, file |-> file]

DoTestPhrase ==
    /\ pc = "do_test_phrase"
    /\ LET cfg == GetConfiguration(args, environ, ini)
           got == PickleLoad(model_file)
       IN IF cfg.raised # None
          THEN /\ Raise(cfg.raised)
               /\ UNCHANGED <<config, model_file, loaded, logged>>
          ELSE /\ config' = cfg.result
               /\ model_file' = got.file
               /\ loaded' = got.value
               /\ IF got.raised # None
                  THEN Raise(got.raised) /\ UNCHANGED logged
                  ELSE IF Vocabulary(got.value) = {}
                  THEN Raise("ValueError") /\ UNCHANGED logged
                  ELSE IF cfg.result["test_phrase"] = None
                  THEN Raise("AttributeError") /\ UNCHANGED logged
                  ELSE /\ \E c \in Predictions(got.value, cfg.result["test_phrase"]) :
                            logged' = <<cfg.result["test_phrase"],
                                        got.value.target_names[c]>>
                       /\ pc' = "exited"
                       /\ exit_status' = 0
                       /\ UNCHANGED error
    /\ UNCHANGED <<argv, environ, ini, ini_values, runs, subcommand, args,
                   executed, jsonl, max_lines, counter, yielded, first_yielded,
                   invocation, key_values, widx, fs, fs_at_start, model_at_start,
                   last_trained>>

(***************************************************************************)
(* Process runs, one after another, on the same disk.                      *)
(***************************************************************************)
WithOpt(p, v) == [NoOpts EXCEPT ![p] = v]

RunArgv ==
    {NoArgv, [cmd |-> "train", opts |-> NoOpts],
     [cmd |-> "bogus", opts |-> NoOpts], [cmd |-> "-h", opts |-> NoOpts]}
    \cup {[cmd |-> "prepare", opts |-> WithOpt("jsonlines_file", f)] :
            f \in {None, "a.jsonl", "b.jsonl"}}
    \cup {[cmd |-> "test-phrase", opts |-> WithOpt("test_phrase", t)] :
            t \in {None, "", "zebra", "red"}}

RunEnv ==
    {[n \in EnvNames |->
        CASE n = "SENZING_SUBCOMMAND" -> s
          [] n = "SENZING_JSONLINES_FILE" -> f
          [] n = "SENZING_TEST_PHRASE" -> t
          [] OTHER -> None] :
     s \in {None, "", "prepare", "train", "test_phrase", "bogus"},
     f \in {None, "a.jsonl"},
     t \in {None, "zebra"}}

Init ==
    /\ argv = NoArgv
    /\ environ = NoEnv
    /\ ini = FALSE
    /\ ini_values = NoOpts
    /\ runs = 0
    /\ pc = "exited"
    /\ subcommand = None
    /\ args = <<>>
    /\ config = <<>>
    /\ executed = <<>>
    /\ exit_status = 0
    /\ error = None
    /\ jsonl = <<>>
    /\ max_lines = 0
    /\ counter = 0
    /\ yielded = <<>>
    /\ first_yielded = <<>>
    /\ invocation = 1
    /\ key_values = <<>>
    /\ widx = 0
    /\ fs = NoRoot
    /\ fs_at_start = NoRoot
    /\ model_file = Absent
    /\ model_at_start = Absent
    /\ last_trained = Absent
    /\ loaded = Absent
    /\ logged = <<>>

\* A new process: its command line and environment, everything of the
\* previous process gone but the disk.
StartProcess ==
    /\ pc = "exited"
    /\ runs < MaxRuns
    /\ runs' = runs + 1
    /\ argv' \in RunArgv
    /\ environ' \in RunEnv
    /\ ini' \in BOOLEAN
    /\ ini_values' = NoOpts
    /\ pc' = "main"
    /\ subcommand' = None
    /\ args' = <<>>
    /\ config' = <<>>
    /\ executed' = <<>>
    /\ exit_status' = NoExit
    /\ error' = None
    /\ jsonl' = <<>>
    /\ max_lines' = 0
    /\ counter' = 0
    /\ yielded' = <<>>
    /\ key_values' = <<>>
    /\ widx' = 0
    /\ fs_at_start' = fs
    /\ model_at_start' = model_file
    /\ loaded' = Absent
    /\ logged' = <<>>
    /\ UNCHANGED <<first_yielded, invocation, fs, model_file, last_trained>>

Next ==
    \/ StartProcess
    \/ Main
    \/ DoPrepare
    \/ PrepareRead
    \/ PrepareWrite
    \/ PrepareEpilog
    \/ DoTrain
    \/ DoTestPhrase

Spec == Init /\ [][Next]_vars

(***************************************************************************)
(* get_configuration on its own, over every way the four sources can       *)
(* supply or withhold each parameter.                                      *)
(***************************************************************************)
OptValues == {None, "", "from-cli"}
EnvValues == {None, "", "from-env"}

ConfigArgv ==
    {[cmd |-> None, opts |-> NoOpts]}
    \cup UNION {{[cmd |-> c, opts |-> o] :
                    o \in {f \in [Params -> OptValues] :
                             \A q \in Params :
                                 q \notin SubparserDests(c) => f[q] = None}} :
                 c \in Subcommands}

InitConfig ==
    /\ argv \in ConfigArgv
    /\ environ \in {e \in [EnvNames -> EnvValues \cup {"train"}] :
                       /\ e["SENZING_SUBCOMMAND"] = "train"
                       /\ \A p \in Params : e[configuration_locator[p].env] # "train"}
    /\ ini \in BOOLEAN
    /\ ini_values \in {NoOpts, WithOpt("model_file", "from-ini")}
    /\ ini_values # NoOpts => ini
    /\ runs = 1
    /\ pc = "configure"
    /\ subcommand = ParseCommandLine(argv, environ).subcommand
    /\ args = ParseCommandLine(argv, environ).args
    /\ config = <<>>
    /\ executed = <<>>
    /\ exit_status = NoExit
    /\ error = None
    /\ jsonl = <<>>
    /\ max_lines = 0
    /\ counter = 0
    /\ yielded = <<>>
    /\ first_yielded = <<>>
    /\ invocation = 1
    /\ key_values = <<>>
    /\ widx = 0
    /\ fs = NoRoot
    /\ fs_at_start = NoRoot
    /\ model_file = Absent
    /\ model_at_start = Absent
    /\ last_trained = Absent
    /\ loaded = Absent
    /\ logged = <<>>

\* config = get_configuration(args), the first statement of every do_*.
CallGetConfiguration ==
    /\ pc = "configure"
    /\ LET cfg == GetConfiguration(args, environ, ini)
       IN IF cfg.raised # None
          THEN Raise(cfg.raised) /\ UNCHANGED config
          ELSE /\ config' = cfg.result
               /\ pc' = "configured"
               /\ UNCHANGED <<error, exit_status>>
    /\ UNCHANGED <<argv, environ, ini, ini_values, runs, subcommand, args,
                   executed, jsonl, max_lines, counter, yielded, first_yielded,
                   invocation, key_values, widx, fs, fs_at_start, model_file,
                   model_at_start, last_trained, loaded, logged>>

NextConfig == CallGetConfiguration

SpecConfig == InitConfig /\ [][NextConfig]_vars

(***************************************************************************)
(* What the input says, computed from the file alone.                      *)
(***************************************************************************)
Min(a, b) == IF a <= b THEN a ELSE b

\* The lines within the cap.
Capped(file, maxl) == SubSeq(file, 1, Min(Len(file), maxl))

AllParse(file) == \A i \in 1..Len(file) : file[i].ok

\* The (key, value) pairs of the lines, in the order read.
RECURSIVE Pairs(_)
Pairs(file) == IF file = <<>> THEN <<>> ELSE Head(file).rec \o Pairs(Tail(file))

\* The stringified values of key k, one per occurrence, in the order read.
RECURSIVE LinesOfKey(_, _)
LinesOfKey(pairs, k) ==
    IF pairs = <<>> THEN <<>>
    ELSE (IF Head(pairs)[1] = k THEN <<Format(Head(pairs)[2])>> ELSE <<>>)
            \o LinesOfKey(Tail(pairs), k)

\* The keys in the order of their first occurrence.
RECURSIVE KeyOrder(_, _)
KeyOrder(pairs, seen) ==
    IF pairs = <<>> THEN <<>>
    ELSE IF Head(pairs)[1] \in seen THEN KeyOrder(Tail(pairs), seen)
         ELSE <<Head(pairs)[1]>> \o KeyOrder(Tail(pairs), seen \cup {Head(pairs)[1]})

HasFile(tree, dir, name) ==
    tree.exists /\ dir \in DOMAIN tree.dirs /\ name \in DOMAIN tree.dirs[dir]

\* A directory of the tree: whether it is there, and its files.
DirState(tree, dir) ==
    IF tree.exists /\ dir \in DOMAIN tree.dirs
    THEN [there |-> TRUE, files |-> tree.dirs[dir]]
    ELSE [there |-> FALSE, files |-> EmptyDir]

Fresh(tree) == ~tree.exists \/ DOMAIN tree.dirs = {}

InputPairs == Pairs(Capped(jsonl, max_lines))
InputKeys == KeyOrder(InputPairs, {})

(***************************************************************************)
(* C8.  Each invocation of the generator yields exactly the first          *)
(* min(n, max_lines) records of the file, in file order, and then ends; a  *)
(* second invocation yields the same sequence; with max_lines = 0 nothing  *)
(* is yielded; a file whose lines all parse never makes it raise.          *)
(***************************************************************************)
GeneratorYieldsCappedPrefix ==
    /\ Len(yielded) <= Min(Len(jsonl), max_lines)
    /\ \A i \in 1..Len(yielded) : yielded[i] = jsonl[i].rec
    /\ pc = "gen_done" => Len(yielded) = Min(Len(jsonl), max_lines)
    /\ (pc = "gen_done" /\ invocation > 1) => yielded = first_yielded
    /\ AllParse(jsonl) => pc # "gen_raised"
    /\ counter <= Len(jsonl)

\* A second invocation over a file longer than a positive cap.
GeneratorCutShort ==
    /\ pc = "gen_done"
    /\ invocation = 2
    /\ 0 < max_lines
    /\ max_lines < Len(jsonl)
    /\ Len(yielded) = max_lines

(***************************************************************************)
(* C9.  In prepare every read and parse step comes before the first write: *)
(* while lines are being read the tree is as it was, the tree differs only *)
(* once every line within the cap has been parsed, and a malformed line    *)
(* ends the run with the tree untouched.                                   *)
(***************************************************************************)
ReadsPrecedeWrites ==
    /\ pc = "prepare_read" => fs = fs_at_start
    /\ fs # fs_at_start =>
          /\ Len(yielded) = Min(Len(jsonl), max_lines)
          /\ AllParse(Capped(jsonl, max_lines))
    /\ error = "JSONDecodeError" => fs = fs_at_start

\* A malformed line met after a good one.
MalformedAfterGoodLine ==
    /\ pc = "exited"
    /\ error = "JSONDecodeError"
    /\ key_values # <<>>
    /\ fs = fs_at_start

(***************************************************************************)
(* C2.  When the write loop comes to a key whose subdirectory exists, the  *)
(* run ends there with FileExistsError and status 1, and the tree, the     *)
(* directory's contents included, is left as it was.                       *)
(***************************************************************************)
ExistingDirectoryIsFatal ==
    [][ ( /\ pc = "prepare_write"
          /\ widx < Len(key_values)
          /\ DirState(fs, Lower(key_values[widx + 1].key)).there )
        => ( /\ pc' = "exited"
             /\ error' = "FileExistsError"
             /\ exit_status' = 1
             /\ fs' = fs ) ]_vars

\* The key color met the directory of an earlier run.
ConflictKeepsOldContents ==
    /\ pc = "exited"
    /\ error = "FileExistsError"
    /\ key_values[widx + 1].key = "color"
    /\ DirState(fs_at_start, "color").there
    /\ fs.dirs["color"] = OldColor

(***************************************************************************)
(* C1.  Fed any file of flat records with a fresh output root, prepare     *)
(* ends without error and every key k of the input has the file            *)
(* <lower-cased k>/<k>.txt holding the stringified values of k, one per    *)
(* occurrence, in the order read, also for keys differing only in case.    *)
(***************************************************************************)
PrepareWritesEveryKey ==
    (pc = "exited" /\ Fresh(fs_at_start) /\ AllParse(jsonl)) =>
        /\ error = None
        /\ \A i \in 1..Len(InputKeys) :
              /\ HasFile(fs, Lower(InputKeys[i]), KeyFile(InputKeys[i]))
              /\ fs.dirs[Lower(InputKeys[i])][KeyFile(InputKeys[i])]
                    = LinesOfKey(InputPairs, InputKeys[i])

\* The first n keys are written whole, key n + 1 met an existing directory,
\* and nothing was made for it or for a later key.
WrittenPrefix(n) ==
    /\ \A i \in 1..n :
          /\ HasFile(fs, Lower(InputKeys[i]), KeyFile(InputKeys[i]))
          /\ fs.dirs[Lower(InputKeys[i])][KeyFile(InputKeys[i])]
                = LinesOfKey(InputPairs, InputKeys[i])
    /\ DirState(fs_at_start, Lower(InputKeys[n + 1])).there
          \/ \E j \in 1..n : Lower(InputKeys[j]) = Lower(InputKeys[n + 1])
    /\ \A i \in (n + 1)..Len(InputKeys) :
          /\ HasFile(fs, Lower(InputKeys[i]), KeyFile(InputKeys[i]))
                = HasFile(fs_at_start, Lower(InputKeys[i]), KeyFile(InputKeys[i]))
          /\ HasFile(fs, Lower(InputKeys[i]), KeyFile(InputKeys[i])) =>
                fs.dirs[Lower(InputKeys[i])][KeyFile(InputKeys[i])]
                    = fs_at_start.dirs[Lower(InputKeys[i])][KeyFile(InputKeys[i])]
    /\ \A d \in {"color", "size"} :
          DirState(fs, d).there =>
              \/ DirState(fs_at_start, d) = DirState(fs, d)
              \/ \E j \in 1..n : Lower(InputKeys[j]) = d

(***************************************************************************)
(* C3 as claimed.  A run of prepare that ends in an error has created no   *)
(* directory and no file for any key of the run.                           *)
(***************************************************************************)
AbortLeavesNothing ==
    (pc = "exited" /\ error # None) =>
        \A i \in 1..Len(key_values) :
            DirState(fs, Lower(key_values[i].key))
                = DirState(fs_at_start, Lower(key_values[i].key))

(***************************************************************************)
(* C3 as amended.  A run ended by a malformed line leaves the tree         *)
(* untouched.  A run ended by an existing directory has written, whole,    *)
(* the files of the keys that precede the conflicting key in the order of  *)
(* first occurrence, and nothing for the conflicting key or a later one:   *)
(* their files are as they were and no directory was made for them.        *)
(***************************************************************************)
AbortLeavesWrittenPrefix ==
    /\ (pc = "exited" /\ error = "JSONDecodeError") => fs = fs_at_start
    /\ (pc = "exited" /\ error = "FileExistsError") =>
          \E n \in 0..(Len(InputKeys) - 1) : WrittenPrefix(n)

\* One key written, the next one met an existing directory.
PartialOutputLeft ==
    /\ pc = "exited"
    /\ error = "FileExistsError"
    /\ widx = 1
    /\ fs # fs_at_start

\* The value of parameter p from the highest source that supplies one.
Resolved(p) ==
    IF p \in DOMAIN args /\ Truthy(args[p]) THEN args[p]
    ELSE IF Truthy(environ[configuration_locator[p].env])
         THEN environ[configuration_locator[p].env]
    ELSE IF ini /\ Truthy(ini_values[p]) THEN ini_values[p]
    ELSE configuration_locator[p].default

(***************************************************************************)
(* C4.  For every parameter get_configuration returns the value of the     *)
(* highest source that supplies one: command-line flag, then environment   *)
(* variable, then configuration file, then built-in default.  A source     *)
(* supplies a value when it gives a non-empty string.                      *)
(***************************************************************************)
ConfigurationPrecedence ==
    pc # "configure" =>
        /\ pc = "configured"
        /\ \A p \in Params : config[p] = Resolved(p)

(***************************************************************************)
(* C5.  A run of train on a tree with at most one category, or with no     *)
(* document, ends in InsufficientTrainingDataError and leaves the model    *)
(* artifact file as it was.                                                *)
(***************************************************************************)
TrainRejectsSingleCategory ==
    ( /\ pc = "exited"
      /\ executed = <<"do_train">>
      /\ ~ini
      /\ fs.exists
      /\ Cardinality(DOMAIN fs.dirs) <= 1 ) =>
        /\ error = "InsufficientTrainingDataError"
        /\ model_file = model_at_start

(***************************************************************************)
(* C6.  The model artifact file is changed by train alone: it always holds *)
(* what the most recent train wrote, a run that is not a train leaves it   *)
(* as it found it, and what test-phrase unpickles is what the most recent  *)
(* train wrote.                                                            *)
(***************************************************************************)
ArtifactOnlyFromTrain ==
    /\ model_file = last_trained
    /\ executed # <<"do_train">> => model_file = model_at_start
    /\ (executed = <<"do_test_phrase">> /\ loaded.exists) => loaded = last_trained

\* A test-phrase run that reported a category from a trained artifact.
TestPhraseReadTrainedArtifact ==
    /\ pc = "exited"
    /\ executed = <<"do_test_phrase">>
    /\ error = None
    /\ loaded.exists
    /\ loaded = last_trained
    /\ logged # <<>>

\* The phrase the user gave: the flag's, else the environment variable's.
GivenPhrase ==
    IF argv.cmd = "test-phrase" /\ argv.opts["test_phrase"] # None
    THEN argv.opts["test_phrase"]
    ELSE environ["SENZING_TEST_PHRASE"]

(***************************************************************************)
(* C7.  With a usable artifact, test-phrase given an empty phrase, or a    *)
(* phrase none of whose tokens is in the vocabulary, ends without error    *)
(* and reports one category of the stored category list.                   *)
(***************************************************************************)
PhraseNeverFails ==
    ( /\ pc = "exited"
      /\ executed = <<"do_test_phrase">>
      /\ ~ini
      /\ model_file.exists
      /\ Vocabulary(model_file) # {}
      /\ GivenPhrase # None
      /\ TokensOf(GivenPhrase) \cap Vocabulary(model_file) = {} ) =>
        /\ error = None
        /\ Len(logged) = 2
        /\ \E i \in 1..Len(model_file.target_names) :
              logged[2] = model_file.target_names[i]

\* The word on the command line that is to name a subcommand.
CommandLineWord == IF argv.cmd \in {None, "-h"} THEN None ELSE argv.cmd

\* The subcommand given: the command line's, else SENZING_SUBCOMMAND's.
GivenSubcommand ==
    IF CommandLineWord # None THEN CommandLineWord
    ELSE IF Truthy(environ["SENZING_SUBCOMMAND"]) THEN environ["SENZING_SUBCOMMAND"]
    ELSE None

\* At most one operation, and the one the given subcommand names.
OneOperationAsNamed ==
    /\ Len(executed) <= 1
    /\ executed # <<>> =>
          /\ GivenSubcommand # None
          /\ executed = <<FunctionName(GivenSubcommand)>>
    /\ (runs > 0 /\ pc \notin {"main", "exited"}) => Len(executed) = 1

(***************************************************************************)
(* C10 as claimed.  A run executes at most one operation, the one the      *)
(* subcommand names, the command line's subcommand before                  *)
(* SENZING_SUBCOMMAND; with no subcommand from either, or one that names   *)
(* no do_* function, nothing is executed and the exit status is 1 (a       *)
(* request for help, -h, set aside).                                       *)
(***************************************************************************)
DispatchExitsOne ==
    /\ OneOperationAsNamed
    /\ ( /\ pc = "exited"
         /\ runs > 0
         /\ argv.cmd # "-h"
         /\ \/ GivenSubcommand = None
            \/ FunctionName(GivenSubcommand) \notin Globals ) =>
           (executed = <<>> /\ exit_status = 1)

(***************************************************************************)
(* C10 as amended.  A run executes at most one operation, the one the      *)
(* subcommand names, the command line's subcommand before                  *)
(* SENZING_SUBCOMMAND.  Nothing is executed and the exit status is 1 when  *)
(* the command line is empty and SENZING_SUBCOMMAND is unset, empty or     *)
(* names no do_* function; a command-line word that is no subcommand ends  *)
(* the run with status 2, and -h with status 0, nothing executed.          *)
(***************************************************************************)
DispatchExitStatus ==
    /\ OneOperationAsNamed
    /\ (runs > 0 /\ pc # "main" /\ argv.cmd \in Subcommands) =>
           executed = <<FunctionName(argv.cmd)>>
    /\ (pc = "exited" /\ runs > 0) =>
          /\ ( /\ argv.cmd = None
               /\ \/ ~Truthy(environ["SENZING_SUBCOMMAND"])
                  \/ FunctionName(environ["SENZING_SUBCOMMAND"]) \notin Globals ) =>
                 (executed = <<>> /\ exit_status = 1)
          /\ (argv.cmd \notin Subcommands \cup {None, "-h"}) =>
                 (executed = <<>> /\ exit_status = 2)
          /\ argv.cmd = "-h" => (executed = <<>> /\ exit_status = 0)

\* train on the command line, prepare in SENZING_SUBCOMMAND.
CommandLineBeatsEnvironment ==
    /\ pc = "exited"
    /\ argv.cmd = "train"
    /\ environ["SENZING_SUBCOMMAND"] = "prepare"
    /\ executed = <<"do_train">>

====
